---- MODULE Spec2Model ----
(***************************************************************************)
(* Model of sbi/utils/sensitivity_analysis.py: data_loader (the random     *)
(* train/validation split and the two batch loaders) and                   *)
(* fit_regression_net (the early-stopping training loop).                  *)
(*                                                                         *)
(* Floats.  A loss is a non-negative number counted in units of 10^9, so   *)
(* that the sentinel 1e10 of line 70 is the integer 10; NaN is encoded as  *)
(* -1 and is unordered (Less).  validation_fraction is a pair <<p, q>>     *)
(* standing for p/q; the fractions enumerated are ones for which the       *)
(* double-precision value int((1 - p/q) * n) equals the exact one for all  *)
(* n used here (0, 1/2, 1 are exact in binary; 1/10 was compared with the  *)
(* exact value for every n below 300).                                     *)
(*                                                                         *)
(* Network parameters.  neural_net is the number of optimizer steps the    *)
(* parameters have received: every step gives new parameter values.  A   *)
(* state dict is a record; `shared` says that it still refers to the       *)
(* tensors of the network, which the optimizer updates in place.           *)
(***************************************************************************)
EXTENDS Integers, Sequences, FiniteSets

\* ---------------------------------------------------------------- bounds
MaxData == 2          \* dataset length of a fit_regression_net call
MaxSplit == 4         \* dataset length / num_train of a data_loader call
MaxBatch == 2         \* batch_size
MaxPatience == 2      \* stop_after_epochs
MaxEpochsBound == 3   \* max_epochs
MaxLoss == 2          \* largest ordinary validation loss

\* ------------------------------------------------------------- constants
Sentinel == 10
NaN == 0 - 1

ValidationFractions == {<<0, 1>>, <<1, 10>>, <<1, 2>>, <<1, 1>>}

LossValues == (0..MaxLoss) \cup {Sentinel, NaN}

VARIABLES
    \* arguments
    data_len, num_train, batch_size, validation_fraction,
    stop_after_epochs, max_epochs,
    \* results of data_loader
    train_loader, val_loader, num_validation_examples,
    \* locals of fit_regression_net
    neural_net, best_validation_log_prob, epochs_since_last_improvement,
    best_model_state_dict, epochs, converged, validation_loss,
    \* control
    pc, raised,
    \* history: validation loss of every epoch, parameters at the end of
    \* every epoch's training pass
    val_losses, epoch_states

args == <<data_len, num_train, batch_size, validation_fraction,
          stop_after_epochs, max_epochs>>
loaders == <<train_loader, val_loader, num_validation_examples>>
locals == <<neural_net, best_validation_log_prob,
            epochs_since_last_improvement, best_model_state_dict, epochs,
            converged, validation_loss>>
history == <<val_losses, epoch_states>>
vars == <<args, loaders, locals, pc, raised, history>>

\* ---------------------------------------------------------------- helpers
Min(a, b) == IF a < b THEN a ELSE b

Range(s) == {s[i] : i \in 1..Len(s)}

\* torch.randperm(n): any ordering of 0..n-1
randperm(n) ==
    {p \in [1..n -> 0..(n - 1)] : \A i, j \in 1..n : p[i] = p[j] => i = j}

\* float comparison `a < b`: false as soon as one side is NaN
Less(a, b) == a # NaN /\ b # NaN /\ a < b

\* ------------------------------------------------------------ data_loader
NumTrainingExamplesRoundUp(vf, n) ==
    (((vf[2] - vf[1]) * n) + vf[2] - 1) \div vf[2]

\* int((1 - validation_fraction) * num_examples)
NumTrainingExamples(vf, n) == ((vf[2] - vf[1]) * n) \div vf[2]

\* permuted_indices[:num_training_examples]
TrainIndices(perm, k) == SubSeq(perm, 1, k)

ValIndicesOffByOne(perm, k) ==
    SubSeq(perm, IF k = 0 THEN 1 ELSE k, Len(perm))

\* permuted_indices[num_training_examples:]
ValIndices(perm, k) == SubSeq(perm, k + 1, Len(perm))

\* min(batch_size, num_examples - num_training_examples)
ValBatchSize(bs, nval) == Min(bs, nval)

\* data.DataLoader(dataset, batch_size, drop_last=True, sampler=SubsetRandomSampler(indices))
DataLoader(indices, bs) == [indices |-> indices, batch_size |-> bs]

\* number of batches one pass over a loader yields (drop_last=True)
NumBatches(loader) ==
    IF loader.batch_size = 0 THEN 0
    ELSE Len(loader.indices) \div loader.batch_size

NoLoader == DataLoader(<<>>, 0)

data_loader ==
    /\ pc = "call"
    /\ LET num_examples == Min(num_train, data_len)
           num_training_examples ==
               NumTrainingExamples(validation_fraction, num_examples)
           nval == num_examples - num_training_examples
       IN  /\ \E permuted_indices \in randperm(num_examples) :
                 /\ train_loader' =
                        DataLoader(TrainIndices(permuted_indices,
                                                num_training_examples),
                                   batch_size)
                 /\ val_loader' =
                        DataLoader(ValIndices(permuted_indices,
                                              num_training_examples),
                                   ValBatchSize(batch_size, nval))
           /\ num_validation_examples' = nval
           \* a loader of batch size 0 is outside this file: the library
           \* either rejects it or hands back a loader that yields nothing
           /\ \/ /\ pc' = "loaded"
                 /\ raised' = "none"
              \/ /\ ValBatchSize(batch_size, nval) = 0
                 /\ pc' = "error"
                 /\ raised' = "ValueError"
    /\ UNCHANGED <<args, locals, history>>

\* ----------------------------------------------------- fit_regression_net
NoneState == [defined |-> FALSE, params |-> 0, shared |-> FALSE]

\* neural_net.state_dict(): references to the network's own tensors
state_dict(net) == [defined |-> TRUE, params |-> net, shared |-> TRUE]

deepcopyAlias(sd) == sd

\* deepcopy(...): the copy no longer shares the network's tensors
deepcopy(sd) == [sd EXCEPT !.shared = FALSE]

\* what an in-place optimizer step does to a held state dict
AfterOptimizerStep(sd, net) ==
    IF sd.defined /\ sd.shared THEN [sd EXCEPT !.params = net] ELSE sd

DivisionNeverRaises(d) == FALSE

\* `x /= d` on Python numbers raises ZeroDivisionError when d is 0
DivisionRaises(d) == d = 0

ImprovedOrEqual(loss, best) == loss # NaN /\ best # NaN /\ loss <= best

\* validation_loss < best_validation_log_prob
Improved(loss, best) == Less(loss, best)

SinceImprovementNoReset(improved, since) == since + 1

\* epochs_since_last_improvement after the improvement check
SinceImprovement(improved, since) == IF improved THEN 0 ELSE since + 1

BudgetExhaustedLate(e, m) == e > m + 1

\* epochs > max_epochs
BudgetExhausted(e, m) == e > m

PatienceExhaustedLate(since, patience) == since > patience + 1

PatienceExhaustedStrict(since, patience) == since > patience

\* epochs_since_last_improvement > stop_after_epochs - 1
PatienceExhausted(since, patience) == since > patience - 1

\* lines 60-78
fit_setup ==
    /\ pc = "loaded"
    /\ best_validation_log_prob' = Sentinel
    /\ epochs_since_last_improvement' = 0
    /\ best_model_state_dict' = NoneState
    /\ epochs' = 0
    /\ converged' = FALSE
    /\ pc' = "train"
    /\ UNCHANGED <<args, loaders, neural_net, validation_loss, raised,
                   history>>

\* lines 82-93: one optimizer step per training batch, then the
\* normalisation of the training loss and epochs += 1
train_pass ==
    /\ pc = "train"
    /\ LET new_net == neural_net + NumBatches(train_loader)
       IN  /\ neural_net' = new_net
           /\ best_model_state_dict' =
                  AfterOptimizerStep(best_model_state_dict, new_net)
           /\ IF DivisionRaises(num_train - num_validation_examples)
              THEN /\ pc' = "error"
                   /\ raised' = "ZeroDivisionError"
                   /\ UNCHANGED <<epochs, epoch_states>>
              ELSE /\ pc' = "validate"
                   /\ epochs' = epochs + 1
                   /\ epoch_states' = Append(epoch_states, new_net)
                   /\ UNCHANGED raised
    /\ UNCHANGED <<args, loaders, best_validation_log_prob,
                   epochs_since_last_improvement, converged,
                   validation_loss, val_losses>>

\* lines 96-104: the losses of the validation batches are summed and the
\* sum is divided by num_validation_examples
validation_pass ==
    /\ pc = "validate"
    /\ IF DivisionRaises(num_validation_examples)
       THEN /\ pc' = "error"
            /\ raised' = "ZeroDivisionError"
            /\ UNCHANGED <<validation_loss, val_losses>>
       ELSE /\ \E loss \in (IF NumBatches(val_loader) = 0
                            THEN {0} ELSE LossValues) :
                  /\ validation_loss' = loss
                  /\ val_losses' = Append(val_losses, loss)
            /\ pc' = "check"
            /\ UNCHANGED raised
    /\ UNCHANGED <<args, loaders, neural_net, best_validation_log_prob,
                   epochs_since_last_improvement, best_model_state_dict,
                   epochs, converged, epoch_states>>

\* lines 109-115
improvement_check ==
    /\ pc = "check"
    /\ LET improved == Improved(validation_loss, best_validation_log_prob)
       IN  /\ best_model_state_dict' =
                  IF improved THEN deepcopy(state_dict(neural_net))
                  ELSE best_model_state_dict
           /\ best_validation_log_prob' =
                  IF improved THEN validation_loss
                  ELSE best_validation_log_prob
           /\ epochs_since_last_improvement' =
                  SinceImprovement(improved, epochs_since_last_improvement)
    /\ pc' = "terminate"
    /\ UNCHANGED <<args, loaders, neural_net, epochs, converged,
                   validation_loss, raised, history>>

\* lines 117-126: both tests load best_model_state_dict; loading None
\* raises inside load_state_dict
termination_check ==
    /\ pc = "terminate"
    /\ IF BudgetExhausted(epochs, max_epochs)
          \/ PatienceExhausted(epochs_since_last_improvement,
                               stop_after_epochs)
       THEN IF best_model_state_dict.defined
            THEN /\ neural_net' = best_model_state_dict.params
                 /\ converged' = TRUE
                 /\ pc' = "done"
                 /\ UNCHANGED raised
            ELSE /\ pc' = "error"
                 /\ raised' = "TypeError"
                 /\ UNCHANGED <<neural_net, converged>>
       ELSE /\ pc' = "train"
            /\ UNCHANGED <<neural_net, converged, raised>>
    /\ UNCHANGED <<args, loaders, best_validation_log_prob,
                   epochs_since_last_improvement, best_model_state_dict,
                   epochs, validation_loss, history>>

\* ---------------------------------------------------------- specifications
InitLocals ==
    /\ train_loader = NoLoader
    /\ val_loader = NoLoader
    /\ num_validation_examples = 0
    /\ neural_net = 0
    /\ best_validation_log_prob = Sentinel
    /\ epochs_since_last_improvement = 0
    /\ best_model_state_dict = NoneState
    /\ epochs = 0
    /\ converged = FALSE
    /\ validation_loss = 0
    /\ pc = "call"
    /\ raised = "none"
    /\ val_losses = <<>>
    /\ epoch_states = <<>>

\* a call of fit_regression_net
Init ==
    /\ data_len \in 0..MaxData
    /\ num_train \in 0..(MaxData + 1)
    /\ batch_size \in 1..MaxBatch
    /\ validation_fraction \in ValidationFractions
    /\ stop_after_epochs \in 0..MaxPatience
    /\ max_epochs \in 0..MaxEpochsBound
    /\ InitLocals

Next ==
    \/ data_loader
    \/ fit_setup
    \/ train_pass
    \/ validation_pass
    \/ improvement_check
    \/ termination_check

Spec == Init /\ [][Next]_vars

\* a call of data_loader on its own
SplitInit ==
    /\ data_len \in 0..MaxSplit
    /\ num_train \in 0..MaxSplit
    /\ batch_size \in 1..(MaxBatch + 1)
    /\ validation_fraction \in ValidationFractions
    /\ stop_after_epochs = 0
    /\ max_epochs = 0
    /\ InitLocals

SplitNext == data_loader

SplitSpec == SplitInit /\ [][SplitNext]_vars

\* the call runs on one thread and nothing suspends it: whenever a step
\* is possible, one is taken
FairSpec == Spec /\ WF_vars(Next)

\* ------------------------------------------------- operators on the history
\* the validation losses that take part in an ordering
Comparable(losses) == {losses[i] : i \in 1..Len(losses)} \ {NaN}

LowestOf(S) == CHOOSE x \in S : \A y \in S : x <= y

\* the lowest of the sentinel and the first k validation losses
RunningMinimum(losses, k) ==
    LowestOf({Sentinel} \cup Comparable(SubSeq(losses, 1, k)))

\* the epochs that strictly lowered the running minimum
LoweringEpochs(losses) ==
    {k \in 1..Len(losses) :
        losses[k] # NaN /\ losses[k] < RunningMinimum(losses, k - 1)}

\* the last such epoch, 0 when there is none
LastLowered(losses) ==
    IF LoweringEpochs(losses) = {} THEN 0
    ELSE CHOOSE k \in LoweringEpochs(losses) :
             \A j \in LoweringEpochs(losses) : j <= k

\* epoch e has the lowest validation loss of the run, and is the earliest
\* epoch with that loss
IsEarliestLowest(losses, e) ==
    /\ losses[e] # NaN
    /\ \A j \in 1..Len(losses) :
          losses[j] # NaN =>
              \/ losses[e] < losses[j]
              \/ losses[e] = losses[j] /\ e <= j

\* the improvement check of the current epoch has been made
EpochChecked ==
    /\ pc \in {"terminate", "train", "done", "error"}
    /\ epochs >= 1
    /\ Len(val_losses) = epochs

\* the loop stopped normally with the epoch budget not used up
PatienceStop == pc = "done" /\ epochs <= max_epochs

\* ------------------------------------------------------------------ claims

\* C1: when fit_regression_net returns, the network holds the parameters
\* it had at the end of the epoch with the lowest validation loss of the
\* run (the earliest such epoch on ties; NaN losses are unordered and are
\* never the lowest), and best_validation_log_prob is that loss.
C1_ReturnsBestEpoch ==
    pc = "done" =>
        \E e \in 1..Len(val_losses) :
            /\ IsEarliestLowest(val_losses, e)
            /\ neural_net = epoch_states[e]
            /\ best_validation_log_prob = val_losses[e]

C1_Witness ==
    /\ pc = "done"
    /\ epochs = 3
    /\ val_losses[2] < val_losses[1]
    /\ val_losses[3] = val_losses[2]
    /\ epoch_states[3] # epoch_states[2]
    /\ neural_net = epoch_states[2]

\* C2: the loop never runs more than max_epochs + 1 epochs: the epoch
\* counter never exceeds max_epochs + 1, no new epoch is started once it
\* exceeds max_epochs, and the call comes to an end (a return or an error).
C2_EpochBudget ==
    /\ [](/\ epochs <= max_epochs + 1
          /\ Len(val_losses) <= max_epochs + 1
          /\ pc = "train" => epochs <= max_epochs)
    /\ <>(pc \in {"done", "error"})

C2_Witness ==
    /\ pc = "done"
    /\ max_epochs >= 2
    /\ epochs = max_epochs + 1
    /\ epochs_since_last_improvement < stop_after_epochs

\* C3: if no epoch after epoch e has a strictly lower validation loss
\* than epoch e, the loop runs no epoch after epoch
\* e + stop_after_epochs + 1.
C3_PatienceBound ==
    \A e \in 1..Len(val_losses) :
        (/\ val_losses[e] # NaN
         /\ \A j \in (e + 1)..Len(val_losses) :
               ~ Less(val_losses[j], val_losses[e]))
        => /\ epochs <= e + stop_after_epochs + 1
           /\ pc = "train" => epochs <= e + stop_after_epochs

C3_Witness ==
    /\ PatienceStop
    /\ stop_after_epochs = 2
    /\ epochs = 3
    /\ IsEarliestLowest(val_losses, 1)
    /\ val_losses[2] = val_losses[1]

\* C4 as stated: the patience stop fires only after strictly more than
\* stop_after_epochs non-improving epochs in a row, and with
\* stop_after_epochs = 1 training stops exactly 2 epochs after the last
\* improvement.
C4_StrictlyMoreThanPatience ==
    PatienceStop =>
        /\ epochs_since_last_improvement > stop_after_epochs
        /\ stop_after_epochs = 1 => epochs = LastLowered(val_losses) + 2

\* C4 amended: the patience stop fires as soon as
\* epochs_since_last_improvement reaches stop_after_epochs, that is after
\* stop_after_epochs non-improving epochs in a row; with
\* stop_after_epochs = 1 training stops exactly 1 epoch after the last
\* improvement.
C4_StopsWhenPatienceReached ==
    /\ PatienceStop =>
          /\ epochs_since_last_improvement = stop_after_epochs
          /\ epochs = LastLowered(val_losses) + stop_after_epochs
          /\ stop_after_epochs = 1 => epochs = LastLowered(val_losses) + 1
    /\ (pc = "train" /\ epochs >= 1) =>
          epochs_since_last_improvement < stop_after_epochs

C4_Witness ==
    /\ PatienceStop
    /\ stop_after_epochs = 1
    /\ epochs = 3
    /\ val_losses[1] # NaN
    /\ val_losses[2] # NaN
    /\ val_losses[2] < val_losses[1]
    /\ val_losses[3] = val_losses[2]
    /\ LastLowered(val_losses) = 2

\* C5: after every call of data_loader the training indices and the
\* validation indices are disjoint, no index occurs twice, together they
\* are exactly 0..n-1 for n = min(num_train, dataset length), and none is
\* at or beyond num_train.
C5_SplitIsPartition ==
    pc # "call" =>
        LET T == Range(train_loader.indices)
            V == Range(val_loader.indices)
            n == Min(num_train, data_len)
        IN  /\ T \cap V = {}
            /\ T \cup V = 0..(n - 1)
            /\ Cardinality(T) = Len(train_loader.indices)
            /\ Cardinality(V) = Len(val_loader.indices)
            /\ \A i \in T \cup V : i < num_train

C5_Witness ==
    /\ pc = "loaded"
    /\ data_len > num_train
    /\ Len(train_loader.indices) >= 1
    /\ Len(val_loader.indices) >= 2

\* the scenario of C6: 100 examples, validation_fraction 0.1, batch_size 10
C6_Scenario ==
    LET perm == [i \in 1..100 |-> i - 1]
        k == NumTrainingExamples(<<1, 10>>, 100)
        tr == DataLoader(TrainIndices(perm, k), 10)
        va == DataLoader(ValIndices(perm, k), ValBatchSize(10, 100 - k))
    IN  /\ Len(tr.indices) = 90
        /\ Len(va.indices) = 10
        /\ NumBatches(tr) = 9
        /\ NumBatches(va) = 1

C7_NoErrorOnEmptyValidation ==
    (pc # "call" /\ num_validation_examples = 0) => raised = "none"

\* C7 amended: with zero validation examples fit_regression_net never
\* gets past the first validation pass: no validation loss is produced,
\* no improvement check is made, no best state is taken and the call does
\* not return; it ends with the ValueError of the validation loader or
\* with a ZeroDivisionError of the first epoch.
C7_EmptyValidationRaises ==
    /\ []((pc # "call" /\ num_validation_examples = 0) =>
            /\ pc \in {"loaded", "train", "validate", "error"}
            /\ val_losses = <<>>
            /\ ~ best_model_state_dict.defined
            /\ epochs <= 1
            /\ pc = "error" =>
                  raised \in {"ValueError", "ZeroDivisionError"})
    /\ (pc # "call" /\ num_validation_examples = 0) ~> (pc = "error")

C7_Witness ==
    /\ num_validation_examples = 0
    /\ num_train > 0
    /\ pc = "error"
    /\ raised = "ZeroDivisionError"
    /\ epochs = 1

\* C8: while the loop runs, the validation pass and the improvement check
\* leave the parameters unchanged, the parameters change only in a
\* training pass (and in the load of the best state that ends the loop),
\* and a best state once taken changes only in an improvement check whose
\* validation loss is strictly lower than the best so far.
C8_Frame ==
    [][ /\ pc \in {"validate", "check"} => neural_net' = neural_net
        /\ neural_net' # neural_net =>
              (pc = "train" \/ (pc = "terminate" /\ pc' = "done"))
        /\ (best_model_state_dict.defined
            /\ best_model_state_dict' # best_model_state_dict) =>
              (/\ pc = "check"
               /\ validation_loss # NaN
               /\ validation_loss < best_validation_log_prob) ]_vars

C8_Witness ==
    /\ pc = "validate"
    /\ best_model_state_dict.defined
    /\ best_model_state_dict.params # neural_net
    /\ epochs = 3

\* C9: whenever the loop decides to stop, by epoch budget or by patience,
\* the best state it loads into the network is a defined snapshot.
C9_BestStateDefinedAtStop ==
    (/\ pc = "terminate"
     /\ \/ epochs > max_epochs
        \/ epochs_since_last_improvement > stop_after_epochs - 1)
    => best_model_state_dict.defined

\* C10 as stated: the first validation loss always becomes the best
\* (with epochs_since_last_improvement 0 after epoch 1) and after every
\* epoch the best is the minimum of the validation losses seen so far.
C10_FirstLossAlwaysBest ==
    EpochChecked =>
        /\ epochs = 1 =>
              /\ best_validation_log_prob = val_losses[1]
              /\ epochs_since_last_improvement = 0
        /\ best_validation_log_prob \in Range(val_losses)
        /\ \A i \in 1..Len(val_losses) :
              ~ Less(val_losses[i], best_validation_log_prob)

\* C10 amended: the first validation loss becomes the best when it is
\* below the initial 1e10 (epochs_since_last_improvement is then 0 after
\* epoch 1, and 1 otherwise); the best never increases: after every epoch
\* it is the minimum of 1e10 and the validation losses seen so far (NaN
\* left out), and epochs_since_last_improvement is the number of epochs
\* since that minimum was last strictly lowered (since the start when it
\* never was).
C10_BestIsRunningMinimum ==
    /\ [](EpochChecked =>
            /\ epochs = 1 =>
                  IF Less(val_losses[1], Sentinel)
                  THEN /\ best_validation_log_prob = val_losses[1]
                       /\ epochs_since_last_improvement = 0
                  ELSE /\ best_validation_log_prob = Sentinel
                       /\ epochs_since_last_improvement = 1
            /\ best_validation_log_prob =
                   RunningMinimum(val_losses, Len(val_losses))
            /\ epochs_since_last_improvement =
                   epochs - LastLowered(val_losses))
    /\ [][best_validation_log_prob' <= best_validation_log_prob]_vars

C10_Witness ==
    /\ EpochChecked
    /\ epochs = 3
    /\ val_losses[1] = NaN
    /\ val_losses[2] = 1
    /\ val_losses[3] = 1
    /\ best_validation_log_prob = 1
    /\ epochs_since_last_improvement = 1

====
